---- MODULE Spec2Model ----
(***************************************************************************)
(* Model of the mercury asynchronously flushing buffered writer            *)
(* (src/mercury.go, lines 1-207): Writer.write, Writer.flush, SetMaxDelay, *)
(* the time.Timer that drives flush, the bufio.Writer it wraps and the     *)
(* global statistics counters.                                             *)
(***************************************************************************)
EXTENDS Integers, Sequences, FiniteSets, TLC

\* ------------------------------------------------------------------ bounds
NumCallers == 2      \* goroutines calling Write / Flush / WriteAndFlush
MaxOps == 3          \* total number of calls made by all callers
MaxLen == 2          \* longest payload of one call
Size == 1            \* capacity of the bufio.Writer (NewWriterSize's size)
MaxDelay == 1        \* largest delay, in ticks of the timer clock
LiveOps == 2         \* total number of calls under FairSpec
MaxCap == 3          \* largest capacity of the bufio.Writer under BufioSpec
MaxPay == 4          \* longest payload under BufioSpec
MaxWrites == 2       \* calls of the helper Write under BufioSpec

Callers == 1..NumCallers
Nil == "nil"
errTest == "errTest"

VARIABLES
    delay,       \* w.delay (atomic)
    buf,         \* bytes held by w.writer (bufio.Writer)
    berr,        \* sticky error of w.writer (bufio.Writer.err)
    sink,        \* bytes the underlying io.Writer has received
    armed,       \* w.armed
    err,         \* w.err, the deferred error
    locked,      \* w.mutex
    timer,       \* w.timer: "stopped" or "pending"
    remaining,   \* ticks until the pending timer fires
    fStart,      \* flush goroutines started by the timer, before line 193
    fWait,       \* flush goroutines waiting in w.mutex.Lock() (line 196)
    fIn,         \* flush goroutines holding the mutex (lines 199-206)
    initiated, executed, extended, cancelled,   \* global counters
    pc,          \* position of each caller inside Writer.write
    arg,         \* p and flush of the call in progress
    loc,         \* n, flushed and delay of the call in progress
    ret,         \* history: the latest return of write: flush, (n, err)
    ops,         \* calls made so far
    accepted,    \* history: bytes accepted by w.writer, in order
    captured,    \* history: errors stored in w.err by flush
    delivered,   \* history: errors handed out of w.err by write
    zeroMode,    \* history: the delay was 0 at construction and ever since
    flushOnly,   \* history: every call so far was a Flush or WriteAndFlush
    queue,       \* w.queue of the revision of src/example/main.go
    skipped,     \* the skipped counter of that revision
    fMark,       \* its flush goroutines between lines 235 and 244
    bw,          \* the bufio.Writer given to Write of src/bufio.go, with
                 \* the arguments and results of the latest call
    snap,        \* the Stats returned by the latest GetStats, and whether
                 \* the mutex was held when it returned
    finished,    \* history: flush goroutines that have returned
    returned     \* history: the payloads of the calls that returned a nil
                 \* error, in the order of their returns

stats == <<initiated, executed, extended, cancelled>>
vars == <<delay, buf, berr, sink, armed, err, locked, timer, remaining,
          fStart, fWait, fIn, initiated, executed, extended, cancelled,
          pc, arg, loc, ret, ops, accepted, captured, delivered, zeroMode,
          flushOnly, queue, skipped, fMark, bw, snap, finished, returned>>

\* the state that only the revision of src/example/main.go has
qvars == <<queue, skipped, fMark>>

Min2(a, b) == IF a < b THEN a ELSE b

\* the payload of the k-th call: fresh bytes, so that order is observable
Payload(first, len) == [i \in 1..len |-> first + i]

NoArg == [p |-> <<>>, flush |-> FALSE]
NoLoc == [n |-> 0, flushed |-> FALSE, delay |-> 0]
NoRet == [done |-> FALSE, flush |-> FALSE, n |-> 0, err |-> Nil,
          deferred |-> FALSE]

\* ------------------------------------------------------------ bufio.Writer
\* A bufio operation works on st = [size, buf, sink, berr, k]; size is the
\* capacity of the buffer and k counts the calls it made to the sink.  The
\* sink call number failAt (0: none) fails after taking `part` bytes (fewer
\* than it was given).

\* b.Available()
Available(b) == Size - Len(b)

\* b.Buffered()
Buffered(b) == Len(b)

\* b.Flush()
bufioFlush(st, failAt, part) ==
    IF st.berr # Nil THEN [st EXCEPT !.err = st.berr]
    ELSE IF Len(st.buf) = 0 THEN [st EXCEPT !.err = Nil]
    ELSE LET fail == (st.k + 1 = failAt)
             n == IF fail THEN Min2(part, Len(st.buf) - 1) ELSE Len(st.buf)
             e == IF fail THEN errTest ELSE Nil
         IN [st EXCEPT !.buf = SubSeq(st.buf, n + 1, Len(st.buf)),
                       !.sink = st.sink \o SubSeq(st.buf, 1, n),
                       !.berr = e, !.k = st.k + 1, !.err = e]

\* b.Write(p): the loop of forced flushes and direct writes, then the copy
RECURSIVE bufioWrite(_, _, _, _)
bufioWrite(st, p, failAt, part) ==
    IF Len(p) > st.size - Len(st.buf) /\ st.berr = Nil
    THEN IF Buffered(st.buf) = 0
         THEN \* large write, empty buffer: written directly to the sink
              LET fail == (st.k + 1 = failAt)
                  n == IF fail THEN Min2(part, Len(p) - 1) ELSE Len(p)
                  e == IF fail THEN errTest ELSE Nil
              IN bufioWrite([st EXCEPT !.sink = st.sink \o SubSeq(p, 1, n),
                                       !.berr = e, !.k = st.k + 1,
                                       !.n = st.n + n],
                            SubSeq(p, n + 1, Len(p)), failAt, part)
         ELSE LET n == st.size - Len(st.buf)
                  filled == [st EXCEPT !.buf = st.buf \o SubSeq(p, 1, n),
                                       !.n = st.n + n]
              IN bufioWrite(bufioFlush(filled, failAt, part),
                            SubSeq(p, n + 1, Len(p)), failAt, part)
    ELSE IF st.berr # Nil THEN [st EXCEPT !.err = st.berr]
    ELSE [st EXCEPT !.buf = st.buf \o p, !.n = st.n + Len(p), !.err = Nil]

\* the bufio.Writer of the current state, about to run one operation
Bufio == [size |-> Size, buf |-> buf, sink |-> sink, berr |-> berr, k |-> 0,
          n |-> 0, err |-> Nil]

\* the outcomes the sink can produce for one operation
FailAts == 0..2
Parts == 0..1

\* ------------------------------------------------------------------- Init
\* bufio.NewWriterSize(w, size), holding occ bytes, before any call of the
\* helper Write
NewBufio(size, occ) ==
    [size |-> size, buf |-> Payload(0, occ), sink |-> <<>>, berr |-> Nil,
     k |-> 0, n |-> 0, err |-> Nil, p |-> <<>>, flushed |-> FALSE,
     calls |-> 0]

\* (variant: the timer created at construction is left running)
NewTimer_Running == "pending"

\* lines 85-86: time.AfterFunc followed by Stop: a stopped timer
NewTimer == "stopped"

\* NewWriter: the fields of the Writer and the counters
WriterInit ==
    /\ delay \in 0..MaxDelay
    /\ buf = <<>> /\ berr = Nil /\ sink = <<>>
    /\ armed = FALSE /\ err = Nil /\ locked = FALSE
    /\ timer = NewTimer /\ remaining = 0
    /\ fStart = 0 /\ fWait = 0 /\ fIn = 0
    /\ initiated = 0 /\ executed = 0 /\ extended = 0 /\ cancelled = 0
    /\ pc = [c \in Callers |-> "idle"]
    /\ arg = [c \in Callers |-> NoArg]
    /\ loc = [c \in Callers |-> NoLoc]
    /\ ret = NoRet
    /\ ops = 0
    /\ accepted = <<>> /\ captured = 0 /\ delivered = 0
    /\ zeroMode = (delay = 0)
    /\ flushOnly = TRUE
    /\ queue = 0 /\ skipped = 0 /\ fMark = 0
    /\ finished = 0
    /\ returned = <<>>
    /\ snap = [Initiated |-> 0, Executed |-> 0, Extended |-> 0,
               Cancelled |-> 0, held |-> FALSE]

Init == WriterInit /\ bw = NewBufio(Size, 0)

\* (variant: the mutex is not released)
Unlocked_Held == TRUE

\* defer w.mutex.Unlock() (lines 120 and 197): the mutex after a return
Unlocked == FALSE

\* a call of write returns: the deferred Unlock runs, the result is recorded
Return(c, n, e, deferred) ==
    /\ locked' = Unlocked
    /\ pc' = [pc EXCEPT ![c] = "idle"]
    /\ ret' = [done |-> TRUE, flush |-> arg[c].flush, n |-> n, err |-> e,
               deferred |-> deferred]
    /\ arg' = [arg EXCEPT ![c] = NoArg]
    /\ loc' = [loc EXCEPT ![c] = NoLoc]
    /\ returned' = IF e = Nil THEN returned \o arg[c].p ELSE returned

\* ------------------------------------------------- Write/Flush/WriteAndFlush
\* Write(p) = write(p, false); Flush() = write(nil, true);
\* WriteAndFlush(p) = write(p, true)
Call(c, flush, len) ==
    /\ UNCHANGED <<qvars, bw, snap, finished, returned>>
    /\ pc[c] = "idle" /\ ops < MaxOps
    /\ ops' = ops + 1
    /\ flushOnly' = (flushOnly /\ flush)
    /\ pc' = [pc EXCEPT ![c] = "lock"]
    /\ arg' = [arg EXCEPT ![c] =
                 [p |-> Payload(ops * MaxLen, len), flush |-> flush]]
    /\ UNCHANGED <<ret, delay, buf, berr, sink, armed, err, locked, timer,
                   remaining, fStart, fWait, fIn, stats, loc, accepted,
                   captured, delivered, zeroMode>>

Write(c) == \E len \in 0..MaxLen : Call(c, FALSE, len)
Flush(c) == Call(c, TRUE, 0)
WriteAndFlush(c) == \E len \in 1..MaxLen : Call(c, TRUE, len)

\* (variant: a Lock that does not exclude)
CanLock_Always == TRUE

\* w.mutex.Lock() can return: nobody holds the mutex
CanLock == ~locked

\* (variant: the test of line 123 left out)
DeferredPending_Never == FALSE

\* write, line 123: an error of an asynchronous flush is waiting
DeferredPending == err # Nil

\* (variant: the error is returned but left in the slot)
ClearedErr_Kept == err

\* write, line 125: the deferred error is cleared when it is handed out
ClearedErr == Nil

\* write, lines 118-127: take the mutex, hand out a deferred error
WriteLock(c) ==
    /\ UNCHANGED <<qvars, bw, snap, finished>>
    /\ pc[c] = "lock" /\ CanLock
    /\ IF DeferredPending
       THEN /\ Return(c, 0, err, TRUE)
            /\ err' = ClearedErr
            /\ delivered' = delivered + 1
       ELSE /\ locked' = TRUE
            /\ pc' = [pc EXCEPT ![c] = "data"]
            /\ UNCHANGED <<err, delivered, ret, arg, loc, returned>>
    /\ UNCHANGED <<delay, buf, berr, sink, armed, timer, remaining,
                   fStart, fWait, fIn, stats, ops, accepted, captured,
                   zeroMode, flushOnly>>

\* (variant: a requested flush is ignored)
ShouldFlush_ZeroOnly(c) == delay = 0

\* (variant: a zero delay does not flush)
ShouldFlush_Requested(c) == arg[c].flush

\* (variant: every call flushes)
ShouldFlush_Always(c) == TRUE

\* write, line 150: flush immediately if requested or delay is zero
ShouldFlush(c) == arg[c].flush \/ delay = 0

\* (variant: the error of w.writer.Write is not tested)
WriteFailed_Ignored(e) == FALSE

\* write, line 137: w.writer.Write has returned an error
WriteFailed(e) == e # Nil

\* (variant: the error of w.writer.Flush is not tested)
FlushFailed_Ignored(e) == FALSE

\* write, line 152: w.writer.Flush has returned an error
FlushFailed(e) == e # Nil

\* write, lines 129-156: write the data into the bufio.Writer, load the
\* delay, flush if requested or if the delay is zero
WriteData(c) ==
    /\ UNCHANGED <<qvars, bw, snap, finished>>
    /\ pc[c] = "data"
    /\ \E failAt \in FailAts, part \in Parts :
         LET a == Available(buf)
             w == IF Len(arg[c].p) > 0
                  THEN bufioWrite(Bufio, arg[c].p, failAt, part)
                  ELSE Bufio
             flushed == Len(arg[c].p) > 0 /\ w.n > a
             failed == WriteFailed(w.err)
             doFlush == ~failed /\ ShouldFlush(c)
             r == IF doFlush THEN bufioFlush(w, failAt, part) ELSE w
         IN /\ (failAt = 0 \/ r.k >= failAt)
            /\ (part = 0 \/ r.berr # berr)
            /\ buf' = r.buf /\ sink' = r.sink /\ berr' = r.berr
            /\ accepted' = accepted \o SubSeq(arg[c].p, 1, r.n)
            /\ IF failed \/ (doFlush /\ FlushFailed(r.err))
               THEN Return(c, r.n, r.err, FALSE)
               ELSE /\ loc' = [loc EXCEPT ![c] =
                                 [n |-> r.n, flushed |-> (flushed \/ doFlush),
                                  delay |-> delay]]
                    /\ pc' = [pc EXCEPT ![c] = "timer"]
                    /\ UNCHANGED <<locked, ret, arg, returned>>
    /\ UNCHANGED <<delay, armed, err, timer, remaining, fStart, fWait, fIn,
                   stats, ops, captured, delivered, zeroMode, flushOnly>>

\* (variant: the result of Stop is taken to be true)
TimerStop_Blind == TRUE

\* w.timer.Stop(): true iff the call stops a timer that has not yet fired
TimerStop == timer = "pending"

\* (variant: off by one, a single buffered byte does not arm)
ArmCond_OffByOne(buffered) == buffered > 1 /\ ~armed

\* write, line 162: arm the timer if data is buffered
ArmCond(buffered) == buffered > 0 /\ ~armed

\* (variant: the timer is never cleared)
CancelCond_Never(buffered) == FALSE

\* write, line 171: clear the timer if no data is buffered
CancelCond(buffered) == buffered = 0 /\ armed

\* (variant: the timer is never reset)
ExtendCond_Never(flushed) == FALSE

\* write, line 181: reset the timer if data has been flushed
ExtendCond(flushed) == flushed /\ armed

\* write, lines 158-189: arm, cancel or extend the timer, then return
WriteTimer(c) ==
    /\ UNCHANGED <<qvars, bw, snap, finished>>
    /\ pc[c] = "timer"
    /\ LET buffered == Buffered(buf)
       IN IF ArmCond(buffered)
          THEN /\ initiated' = initiated + 1
               /\ timer' = "pending" /\ remaining' = loc[c].delay
               /\ armed' = TRUE
               /\ UNCHANGED <<cancelled, extended>>
          ELSE IF CancelCond(buffered)
          THEN IF TimerStop
               THEN /\ timer' = "stopped" /\ remaining' = 0
                    /\ cancelled' = cancelled + 1
                    /\ armed' = FALSE
                    /\ UNCHANGED <<initiated, extended>>
               ELSE UNCHANGED <<timer, remaining, armed, initiated,
                                cancelled, extended>>
          ELSE IF ExtendCond(loc[c].flushed) /\ TimerStop
          THEN /\ extended' = extended + 1
               /\ timer' = "pending" /\ remaining' = loc[c].delay
               /\ UNCHANGED <<armed, initiated, cancelled>>
          ELSE UNCHANGED <<timer, remaining, armed, initiated, cancelled,
                           extended>>
    /\ Return(c, loc[c].n, Nil, FALSE)
    /\ UNCHANGED <<delay, buf, berr, sink, err, fStart, fWait, fIn, executed,
                   ops, accepted, captured, delivered, zeroMode, flushOnly>>

\* (variant: a pending timer is shortened to the new delay)
TimerAfterSetMaxDelay_Shortened(d) == Min2(remaining, d)

\* SetMaxDelay does not touch w.timer: a pending timer keeps its deadline
TimerAfterSetMaxDelay(d) == remaining

\* (variant: the atomic operations wait for the mutex to be free)
AtomicWaits_Mutex == locked

\* SetMaxDelay (line 114) and GetStats (lines 36-41) use atomic loads and
\* stores only: they wait for nothing
AtomicWaits == FALSE

\* SetMaxDelay, lines 113-115
SetMaxDelay(d) ==
    /\ UNCHANGED <<qvars, bw, snap, finished, returned>>
    /\ ~AtomicWaits
    /\ d # delay
    /\ delay' = d
    /\ zeroMode' = FALSE
    /\ remaining' = TimerAfterSetMaxDelay(d)
    /\ UNCHANGED <<buf, berr, sink, armed, err, locked, timer,
                   fStart, fWait, fIn, stats, pc, arg, loc, ret, ops,
                   accepted, captured, delivered,
                   flushOnly>>

\* GetStats, lines 34-42
GetStats ==
    /\ ~AtomicWaits
    /\ snap' = [Initiated |-> initiated, Executed |-> executed,
                Extended |-> extended, Cancelled |-> cancelled,
                held |-> locked]
    /\ UNCHANGED <<delay, buf, berr, sink, armed, err, locked, timer,
                   remaining, fStart, fWait, fIn, stats, pc, arg, loc, ret,
                   ops, accepted, captured, delivered, zeroMode, flushOnly,
                   qvars, bw, finished, returned>>

\* ------------------------------------------------------------- time.Timer
\* time passes for the pending timer
Tick ==
    /\ UNCHANGED <<qvars, bw, snap, finished, returned>>
    /\ timer = "pending" /\ remaining > 0
    /\ remaining' = remaining - 1
    /\ UNCHANGED <<delay, buf, berr, sink, armed, err, locked, timer,
                   fStart, fWait, fIn, stats, pc, arg, loc, ret, ops,
                   accepted, captured, delivered, zeroMode, flushOnly>>

\* the timer expires and starts w.flush in its own goroutine (line 85)
TimerFire ==
    /\ UNCHANGED <<qvars, bw, snap, finished, returned>>
    /\ timer = "pending" /\ remaining = 0
    /\ timer' = "stopped"
    /\ fStart' = fStart + 1
    /\ UNCHANGED <<delay, buf, berr, sink, armed, err, locked, remaining,
                   fWait, fIn, stats, pc, arg, loc, ret, ops,
                   accepted, captured, delivered, zeroMode, flushOnly>>

\* ------------------------------------------------------------ Writer.flush
\* flush, lines 192-193: count the flush
flushCount ==
    /\ UNCHANGED <<qvars, bw, snap, finished, returned>>
    /\ fStart > 0
    /\ fStart' = fStart - 1 /\ fWait' = fWait + 1
    /\ executed' = executed + 1
    /\ UNCHANGED <<delay, buf, berr, sink, armed, err, locked, timer,
                   remaining, fIn, initiated, extended, cancelled, pc, arg,
                   loc, ret, ops, accepted, captured, delivered, zeroMode,
                   flushOnly>>

\* flush, lines 195-197: acquire the mutex
flushLock ==
    /\ UNCHANGED <<qvars, bw, snap, finished, returned>>
    /\ fWait > 0 /\ CanLock
    /\ locked' = TRUE
    /\ fWait' = fWait - 1 /\ fIn' = fIn + 1
    /\ UNCHANGED <<delay, buf, berr, sink, armed, err, timer, remaining,
                   fStart, stats, pc, arg, loc, ret, ops, accepted,
                   captured, delivered, zeroMode, flushOnly>>

\* (variant: the flag is left as it was)
ArmedAfterFlush_Kept == armed

\* flush, line 200: the flag is cleared
ArmedAfterFlush == FALSE

\* flush, line 204: the first error is kept
StoreErr(e) == e # Nil /\ err = Nil

\* (variant: the buffer is reset instead of flushed)
FlushBuffer_Discard(failAt, part) == [Bufio EXCEPT !.buf = <<>>]

\* flush, line 203: the bufio.Writer after w.writer.Flush()
FlushBuffer(failAt, part) == bufioFlush(Bufio, failAt, part)

\* flush, lines 199-207: clear the flag, flush the buffer, keep the error
flushBody ==
    /\ UNCHANGED <<qvars, bw, snap, returned>>
    /\ finished' = finished + 1
    /\ fIn > 0
    /\ \E failAt \in 0..1, part \in Parts :
         LET r == FlushBuffer(failAt, part)
             store == StoreErr(r.err)
         IN /\ (failAt = 0 \/ r.k >= failAt)
            /\ (part = 0 \/ r.berr # berr)
            /\ armed' = ArmedAfterFlush
            /\ buf' = r.buf /\ sink' = r.sink /\ berr' = r.berr
            /\ err' = IF store THEN r.err ELSE err
            /\ captured' = IF store THEN captured + 1 ELSE captured
    /\ fIn' = fIn - 1
    /\ locked' = Unlocked
    /\ UNCHANGED <<delay, timer, remaining, fStart, fWait, stats, pc, arg,
                   loc, ret, ops, accepted, delivered, zeroMode, flushOnly>>

\* ------------------------------ the revision of src/example/main.go
\* This revision shares Write, Flush, WriteAndFlush, SetMaxDelay and lines
\* 118-156 of write with src/mercury.go.  It stops and resets the timer
\* without testing the result, counts only executed and skipped, and guards
\* flush with the counter w.queue.

\* write, src/example/main.go lines 206-231: arm, clear or reset the timer
queueWriteTimer(c) ==
    /\ pc[c] = "timer"
    /\ LET buffered == Buffered(buf)
       IN IF buffered > 0 /\ ~armed
          THEN /\ timer' = "pending" /\ remaining' = loc[c].delay
               /\ armed' = TRUE
          ELSE IF buffered = 0 /\ armed
          THEN /\ timer' = "stopped" /\ remaining' = 0
               /\ armed' = FALSE
          ELSE IF loc[c].flushed /\ armed
          THEN /\ timer' = "pending" /\ remaining' = loc[c].delay
               /\ UNCHANGED armed
          ELSE UNCHANGED <<timer, remaining, armed>>
    /\ Return(c, loc[c].n, Nil, FALSE)
    /\ UNCHANGED <<delay, buf, berr, sink, err, fStart, fWait, fIn, stats,
                   ops, accepted, captured, delivered, zeroMode, flushOnly,
                   qvars, bw, snap, finished>>

\* (variant: the counter is not tested)
QueueBusy_Never(n) == FALSE

\* flush, src/example/main.go line 236: a flush is already queued
QueueBusy(n) == n > 0

\* flush, src/example/main.go lines 234-241: load w.queue; count a skip and
\* return if a flush is already queued
queueFlushLoad ==
    /\ fStart > 0
    /\ fStart' = fStart - 1
    /\ IF QueueBusy(queue)
       THEN skipped' = skipped + 1 /\ UNCHANGED fMark
       ELSE fMark' = fMark + 1 /\ UNCHANGED skipped
    /\ UNCHANGED <<delay, buf, berr, sink, armed, err, locked, timer,
                   remaining, fWait, fIn, stats, pc, arg, loc, ret, ops,
                   accepted, captured, delivered, zeroMode, flushOnly,
                   queue, bw, snap, finished, returned>>

\* flush, src/example/main.go line 244: increment w.queue
queueFlushMark ==
    /\ fMark > 0
    /\ fMark' = fMark - 1 /\ fWait' = fWait + 1
    /\ queue' = queue + 1
    /\ UNCHANGED <<delay, buf, berr, sink, armed, err, locked, timer,
                   remaining, fStart, fIn, stats, pc, arg, loc, ret, ops,
                   accepted, captured, delivered, zeroMode, flushOnly,
                   skipped, bw, snap, finished, returned>>

\* flush, src/example/main.go lines 246-251: acquire the mutex, decrement
\* w.queue
queueFlushLock ==
    /\ fWait > 0 /\ CanLock
    /\ locked' = TRUE
    /\ fWait' = fWait - 1 /\ fIn' = fIn + 1
    /\ queue' = queue - 1
    /\ UNCHANGED <<delay, buf, berr, sink, armed, err, timer, remaining,
                   fStart, stats, pc, arg, loc, ret, ops, accepted,
                   captured, delivered, zeroMode, flushOnly, skipped,
                   fMark, bw, snap, finished, returned>>

\* flush, src/example/main.go lines 253-264: clear the flag, flush the
\* buffer, keep the error, count the flush, unlock
queueFlushBody ==
    /\ fIn > 0
    /\ \E failAt \in 0..1, part \in Parts :
         LET r == FlushBuffer(failAt, part)
             store == StoreErr(r.err)
         IN /\ (failAt = 0 \/ r.k >= failAt)
            /\ (part = 0 \/ r.berr # berr)
            /\ armed' = FALSE
            /\ buf' = r.buf /\ sink' = r.sink /\ berr' = r.berr
            /\ err' = IF store THEN r.err ELSE err
            /\ captured' = IF store THEN captured + 1 ELSE captured
    /\ executed' = executed + 1
    /\ finished' = finished + 1
    /\ fIn' = fIn - 1
    /\ locked' = Unlocked
    /\ UNCHANGED <<delay, timer, remaining, fStart, fWait, initiated,
                   extended, cancelled, pc, arg, loc, ret, ops, accepted,
                   delivered, zeroMode, flushOnly, qvars, bw, snap,
                   returned>>

QueueNext ==
    \/ \E c \in Callers : Write(c)
    \/ \E c \in Callers : Flush(c)
    \/ \E c \in Callers : WriteAndFlush(c)
    \/ \E c \in Callers : WriteLock(c)
    \/ \E c \in Callers : WriteData(c)
    \/ \E c \in Callers : queueWriteTimer(c)
    \/ \E d \in 0..MaxDelay : SetMaxDelay(d)
    \/ Tick
    \/ TimerFire
    \/ queueFlushLoad
    \/ queueFlushMark
    \/ queueFlushLock
    \/ queueFlushBody

QueueSpec == Init /\ [][QueueNext]_vars

\* ------------------------------------------------- Write of src/bufio.go
\* The helper that reports whether a write to a bufio.Writer flushed.  It is
\* applied to writers of every capacity up to MaxCap, holding any number of
\* bytes, with payloads of every length up to MaxPay.

\* (variant: a payload that fills the buffer counts as a flush)
FlushedCond_AtLeast(n, a) == n >= a

\* src/bufio.go line 14: n > a
FlushedCond(n, a) == n > a

\* Write(w, p), src/bufio.go lines 7-15
WriteBufio(len) ==
    /\ bw.calls < MaxWrites
    /\ \E failAt \in FailAts, part \in Parts :
         LET p == Payload(Len(bw.sink) + Len(bw.buf), len)
             a == bw.size - Len(bw.buf)
             w == bufioWrite([bw EXCEPT !.k = 0, !.n = 0], p, failAt, part)
         IN /\ (failAt = 0 \/ w.k >= failAt)
            /\ (part = 0 \/ w.berr # bw.berr)
            /\ bw' = [w EXCEPT !.p = p, !.flushed = FlushedCond(w.n, a),
                               !.calls = bw.calls + 1]
    /\ UNCHANGED <<delay, buf, berr, sink, armed, err, locked, timer,
                   remaining, fStart, fWait, fIn, stats, pc, arg, loc, ret,
                   ops, accepted, captured, delivered, zeroMode, flushOnly,
                   qvars, snap, finished, returned>>

BufioInit ==
    /\ WriterInit
    /\ \E size \in 1..MaxCap : \E occ \in 0..size : bw = NewBufio(size, occ)

BufioNext == \E len \in 0..MaxPay : WriteBufio(len)

BufioSpec == BufioInit /\ [][BufioNext]_vars

\* ------------------------------------------------------------------- Next
Next ==
    \/ \E c \in Callers : Write(c)
    \/ \E c \in Callers : Flush(c)
    \/ \E c \in Callers : WriteAndFlush(c)
    \/ \E c \in Callers : WriteLock(c)
    \/ \E c \in Callers : WriteData(c)
    \/ \E c \in Callers : WriteTimer(c)
    \/ \E d \in 0..MaxDelay : SetMaxDelay(d)
    \/ Tick
    \/ TimerFire
    \/ flushCount
    \/ flushLock
    \/ flushBody

Spec == Init /\ [][Next]_vars

\* the writer together with callers of GetStats
StatsNext == Next \/ GetStats

StatsSpec == Init /\ [][StatsNext]_vars

\* a step of a call or of a flush that has started, or of the timer
Progress ==
    \/ Tick \/ TimerFire
    \/ flushCount \/ flushLock \/ flushBody
    \/ \E c \in Callers : WriteLock(c) \/ WriteData(c) \/ WriteTimer(c)

\* the same program with at most LiveOps calls
FairNext ==
    \/ /\ ops < LiveOps
       /\ \E c \in Callers : Write(c) \/ Flush(c) \/ WriteAndFlush(c)
    \/ \E d \in 0..MaxDelay : SetMaxDelay(d)
    \/ Progress

\* The Go scheduler never idles while a goroutine is runnable or a timer is
\* due: a call or a flush that has started goes on and the clock goes on.
\* Whether a caller makes another call is up to the caller.
FairSpec == Init /\ [][FairNext]_vars /\ WF_vars(Progress)

TypeOK ==
    /\ delay \in 0..MaxDelay
    /\ armed \in BOOLEAN /\ locked \in BOOLEAN
    /\ timer \in {"stopped", "pending"}
    /\ remaining \in 0..MaxDelay
    /\ err \in {Nil, errTest} /\ berr \in {Nil, errTest}
    /\ Len(buf) <= Size

\* ------------------------------------------------------------ properties
Pending == IF err # Nil THEN 1 ELSE 0

\* the step in which caller c returns from write
Returns(c) == pc[c] # "idle" /\ pc'[c] = "idle"

\* the step in which caller c takes the mutex while a deferred error is stored
TakesDeferred(c) == pc[c] = "lock" /\ pc'[c] # "lock" /\ err # Nil

\* a ~ b for sequences: a is a prefix of b
IsPrefix(a, b) == Len(a) <= Len(b) /\ SubSeq(b, 1, Len(a)) = a

C2_DeferredReturnFrame ==
    [][\A c \in Callers :
         TakesDeferred(c) =>
           /\ Returns(c)
           /\ ret'.n = 0 /\ ret'.err = err /\ err' = Nil
           /\ UNCHANGED <<buf, berr, sink, accepted, armed, timer, remaining,
                          initiated, executed, extended, cancelled, delay>>
      ]_vars

\* the deferred error was handed to a call that carried a payload, while
\* bytes were still held in the buffer
C2_Witness ==
    /\ ret.deferred /\ ret.n = 0 /\ ret.err = errTest
    /\ err = Nil /\ Len(buf) > 0

\* no call is in progress
Quiet == \A c \in Callers : pc[c] = "idle"

\* everything accepted is in the sink, nothing is buffered, no timer is armed
Flushed == buf = <<>> /\ ~armed /\ sink = accepted

\* C4: once a Write has left bytes buffered (no call in progress, no sink
\* error so far), then unless a further call is made or the sink fails, the
\* writer eventually has all accepted bytes in the sink, an empty buffer and
\* armed = false, and stays so.
C4_EventuallyFlushed ==
    \A k \in 0..LiveOps :
      [](  (ops = k /\ Quiet /\ Len(buf) > 0 /\ berr = Nil)
        => (<>[]Flushed \/ <>(ops > k) \/ <>(berr # Nil)) )

\* the timer-driven flush has run and delivered the buffered bytes
C4_Witness ==
    /\ Quiet /\ Flushed /\ berr = Nil
    /\ executed > 0 /\ cancelled = 0 /\ Len(sink) > 0
    /\ ~ret.deferred /\ ret.err = Nil

\* C5: whenever Flush or WriteAndFlush returns without error, the buffer is
\* empty and the sink holds every byte accepted so far.
C5_FlushReturnsFlushed ==
    [][\A c \in Callers :
         (Returns(c) /\ arg[c].flush /\ ret'.err = Nil)
           => (buf' = <<>> /\ sink' = accepted')
      ]_vars

\* a Flush or WriteAndFlush returned without error after it cancelled the
\* timer of an earlier Write, whose bytes are now in the sink
C5_Witness ==
    /\ ret.done /\ ret.flush /\ ret.err = Nil
    /\ cancelled > 0 /\ executed = 0 /\ Len(sink) > 1 /\ buf = <<>>

\* C6: while the delay has been zero since construction, armed is false, the
\* timer is never scheduled (initiated stays 0), no flush goroutine exists
\* (executed stays 0), and whenever the mutex is free and the sink has not
\* failed, nothing is buffered and every accepted byte is in the sink.
C6_ZeroDelaySynchronous ==
    zeroMode =>
      /\ ~armed /\ timer = "stopped"
      /\ initiated = 0 /\ executed = 0
      /\ fStart + fWait + fIn = 0
      /\ (~locked /\ berr = Nil) => (buf = <<>> /\ sink = accepted)

\* with zero delay a plain Write has returned with its bytes in the sink
C6_Witness ==
    /\ zeroMode /\ ret.done /\ ~ret.flush /\ ret.err = Nil /\ ret.n > 0
    /\ ~locked /\ Len(sink) > 0

\* C7: the sink contents are always a prefix of the bytes accepted, in the
\* order of acceptance.
C7_SinkIsPrefixOfAccepted == IsPrefix(sink, accepted)

\* the sink was fed by a timer-driven flush and by callers, more is buffered
C7_Witness ==
    /\ executed > 0 /\ Len(sink) > 1 /\ Len(buf) > 0
    /\ Len(accepted) = Len(sink) + Len(buf)

\* callers inside the critical section of write
InWrite == {c \in Callers : pc[c] \in {"data", "timer"}}

\* C8: at most one execution holds the mutex: callers inside write and flush
\* goroutines inside flush never overlap.
C8_MutualExclusion == Cardinality(InWrite) + fIn <= 1

\* a caller is inside write while a flush goroutine and another caller wait
C8_Witness ==
    /\ Cardinality(InWrite) = 1 /\ fWait > 0
    /\ \E c \in Callers : pc[c] = "lock"

\* C9 as stated: with the mutex free, armed implies buffered bytes and a
\* pending timer.
C9_ArmedImpliesPendingTimer ==
    (~locked /\ armed) => (Len(buf) > 0 /\ timer = "pending")

\* C9, amended: with the mutex free, armed implies a pending timer (and,
\* as long as the sink has returned no error, buffered bytes), or a fired
\* timer whose flush goroutine has not yet taken the mutex.
C9_ArmedImpliesTimerOrFlush ==
    (~locked /\ armed) =>
      \/ timer = "pending" /\ fStart + fWait = 0
                           /\ (berr = Nil => Len(buf) > 0)
      \/ timer = "stopped" /\ fStart + fWait = 1

\* the timer has fired, a caller has emptied the buffer before the flush
\* goroutine got the mutex: armed, nothing buffered, no timer pending
C9_Witness ==
    /\ ~locked /\ armed /\ buf = <<>> /\ timer = "stopped"
    /\ fWait = 1 /\ Quiet

\* C10 as stated: with the mutex free, not armed implies an empty buffer or
\* a zero delay.
C10_UnarmedImpliesEmpty ==
    (~locked /\ ~armed) => (Len(buf) = 0 \/ delay = 0)

\* C10, amended: the same as long as the sink has returned no error.
C10_UnarmedImpliesEmptyNoError ==
    (~locked /\ ~armed /\ berr = Nil) => (Len(buf) = 0 \/ delay = 0)

\* a timer-driven flush has emptied the buffer and cleared the flag, after
\* the delay was changed
C10_Witness ==
    /\ ~locked /\ ~armed /\ berr = Nil /\ delay # 0
    /\ executed > 0 /\ Len(sink) > 0 /\ Quiet /\ ~zeroMode

\* C11: the writer never stays armed with an empty buffer: every state with
\* armed = true and nothing buffered is followed by a state with armed =
\* false, whether or not a caller makes another call (the started calls,
\* the timer and the flush goroutine go on by themselves).
C11_ArmedEmptyLeadsToUnarmed ==
    (armed /\ Len(buf) = 0) ~> ~armed

\* a caller's flush has emptied the buffer and returned while the fired
\* timer's flush goroutine has not yet taken the mutex: armed stays true
C11_Witness ==
    /\ armed /\ Len(buf) = 0 /\ ~locked /\ Quiet
    /\ timer = "stopped" /\ fStart + fWait = 1
    /\ ret.done /\ ret.err = Nil /\ sink = accepted /\ Len(sink) > 0
    /\ cancelled = 0

\* C12 as stated: whenever Flush or WriteAndFlush returns without error,
\* armed is false and no timer is pending.
C12_FlushReturnsUnarmed ==
    [][\A c \in Callers :
         (Returns(c) /\ arg[c].flush /\ ret'.err = Nil)
           => (~armed' /\ timer' = "stopped")
      ]_vars

\* C12, amended: whenever Flush or WriteAndFlush returns without error, no
\* timer is pending; a timer that was still pending has been stopped and
\* counted as cancelled, and the writer is then unarmed; armed is true on
\* return only if the timer had already fired and its flush goroutine has
\* not yet taken the mutex.
C12_FlushReturnsNoPendingTimer ==
    [][\A c \in Callers :
         (Returns(c) /\ arg[c].flush /\ ret'.err = Nil)
           => /\ timer' = "stopped"
              /\ (timer = "pending" => (~armed' /\ cancelled' = cancelled + 1))
              /\ (armed' => (timer = "stopped" /\ fStart + fWait = 1))
      ]_vars

\* a Flush has returned without error after stopping the pending timer of an
\* earlier Write: unarmed, one timer initiated, one cancelled
C12_Witness ==
    /\ ret.done /\ ret.flush /\ ret.err = Nil /\ ret.n = 0
    /\ initiated = 1 /\ cancelled = 1 /\ executed = 0
    /\ ~armed /\ timer = "stopped" /\ Quiet

\* C13: a Write that has loaded a zero delay (set by SetMaxDelay after an
\* earlier Write armed the timer) and reaches the timer step before the
\* timer fires returns with every accepted byte in the sink in order, its
\* own payload last, the writer unarmed, cancelled increased by exactly 1,
\* no other counter changed and no flush goroutine started for that timer.
C13_ZeroDelayWriteCancels ==
    [][\A c \in Callers :
         (Returns(c) /\ pc[c] = "timer" /\ ~arg[c].flush
            /\ loc[c].delay = 0 /\ timer = "pending")
           => /\ ret'.err = Nil /\ ret'.n = Len(arg[c].p)
              /\ buf' = <<>> /\ sink' = accepted'
              /\ IsPrefix(arg[c].p, SubSeq(sink', Len(sink') - ret'.n + 1,
                                           Len(sink')))
              /\ ~armed' /\ timer' = "stopped"
              /\ cancelled' = cancelled + 1
              /\ UNCHANGED <<initiated, executed, extended>>
              /\ fStart' + fWait' + fIn' = 0
      ]_vars

\* two calls were made: a Write that armed the timer and, after the delay was
\* set to zero, a Write that flushed both payloads and stopped the timer
C13_Witness ==
    /\ ops = 2 /\ Quiet /\ delay = 0 /\ ~zeroMode
    /\ ret.done /\ ~ret.flush /\ ret.err = Nil /\ ret.n > 0
    /\ initiated = 1 /\ cancelled = 1 /\ executed = 0 /\ extended = 0
    /\ ~armed /\ timer = "stopped" /\ buf = <<>>
    /\ sink = accepted /\ Len(sink) > ret.n

\* C14: a step that changes the configured delay changes nothing else: the
\* buffer, the sink, the armed flag, the deferred error, the counters, the
\* pending timer and its deadline, the mutex and the calls in progress are
\* as before.  The delay is read only by write, once per call (line 147),
\* and a timer is scheduled or rescheduled only by a returning write, with
\* the value that call has read.
C14_SetMaxDelayFrame ==
    [][/\ delay' # delay =>
            UNCHANGED <<buf, berr, sink, accepted, armed, err, locked,
                        timer, remaining, fStart, fWait, fIn, initiated,
                        executed, extended, cancelled, pc, arg, loc, ret>>
       /\ \A c \in Callers :
            loc'[c].delay # loc[c].delay =>
              \/ pc[c] = "data" /\ loc'[c].delay = delay
              \/ Returns(c)
       /\ (timer' = "pending" /\ (timer = "stopped" \/ extended' # extended))
            => \E c \in Callers :
                 Returns(c) /\ pc[c] = "timer" /\ remaining' = loc[c].delay
      ]_vars

\* the delay was lowered after a Write armed the timer: the pending timer
\* still has its old, longer deadline
C14_Witness ==
    /\ timer = "pending" /\ armed /\ Len(buf) > 0 /\ Quiet
    /\ remaining > delay /\ ~zeroMode /\ initiated = 1 /\ extended = 0

\* C15: a Write with a non-zero delay counts as having flushed exactly when
\* its payload exceeds the capacity available before the call; if it has,
\* and it reaches the timer step while the timer is still pending and bytes
\* remain buffered, the timer is rescheduled to the full delay the call has
\* read, extended increases by exactly 1, armed stays true and no other
\* counter changes.
C15_ForcedFlushExtendsTimer ==
    [][\A c \in Callers :
         /\ (pc[c] = "data" /\ pc'[c] = "timer" /\ ~arg[c].flush /\ delay # 0)
              => loc'[c].flushed = (Len(arg[c].p) > Available(buf))
         /\ (Returns(c) /\ pc[c] = "timer" /\ ~arg[c].flush
               /\ loc[c].flushed /\ timer = "pending" /\ Len(buf) > 0)
              => /\ ret'.err = Nil
                 /\ timer' = "pending" /\ remaining' = loc[c].delay
                 /\ loc[c].delay > 0
                 /\ extended' = extended + 1
                 /\ armed /\ armed'
                 /\ UNCHANGED <<initiated, executed, cancelled>>
      ]_vars

\* a second Write has overflowed the buffer while the timer of the first was
\* pending: the old bytes are in the sink, new ones are buffered, and the
\* timer was reset once to the full delay
C15_Witness ==
    /\ Quiet /\ ret.done /\ ~ret.flush /\ ret.err = Nil /\ ret.n > 0
    /\ initiated = 1 /\ extended = 1 /\ executed = 0 /\ cancelled = 0
    /\ armed /\ timer = "pending" /\ remaining = MaxDelay
    /\ Len(buf) > 0 /\ Len(sink) > 0

\* C16: a call that finds no deferred error and whose payload is not wholly
\* accepted by w.writer.Write (the sink has returned an error) returns that
\* error and the count of bytes accepted straight from the write: the armed
\* flag, the timer and its deadline, the deferred error and the counters
\* are unchanged; no timer is scheduled, stopped or reset.
C16_WriteErrorFrame ==
    [][\A c \in Callers :
         (Returns(c) /\ ~ret'.deferred /\ ret'.n < Len(arg[c].p))
           => /\ pc[c] = "data"
              /\ ret'.err = errTest /\ ret'.err = berr'
              /\ accepted' = accepted \o SubSeq(arg[c].p, 1, ret'.n)
              /\ UNCHANGED <<armed, timer, remaining, err, initiated,
                             executed, extended, cancelled, fStart, fWait,
                             fIn, delay>>
      ]_vars

\* the second of two Writes has overflowed the buffer while the timer of the
\* first was pending, and the sink has failed after taking one byte of its
\* payload: the call has returned (1, error), the timer is still pending and
\* armed although nothing is buffered, and only initiated has counted
C16_Witness ==
    /\ ops = 2 /\ Quiet /\ ret.done /\ ~ret.flush /\ ~ret.deferred
    /\ ret.err = errTest /\ ret.n = 1 /\ berr = errTest
    /\ buf = <<>> /\ Len(sink) = 2 /\ sink = accepted
    /\ armed /\ timer = "pending" /\ err = Nil
    /\ initiated = 1 /\ executed = 0 /\ extended = 0 /\ cancelled = 0

\* C17: when a WriteAndFlush on an unarmed writer has its whole payload
\* accepted and returns with bytes still buffered (the explicit flush has
\* failed), it returns the payload length with the error, armed stays false,
\* no counter changes, and it leaves no timer pending and no flush goroutine
\* behind; since only a returning call schedules the timer, only a pending
\* timer starts a flush goroutine and only a started goroutine counts as
\* executed, no background flush follows unless a later call arms the timer.
C17_FailedFlushSchedulesNothing ==
    [][/\ \A c \in Callers :
            (Returns(c) /\ ~ret'.deferred /\ arg[c].flush
               /\ Len(arg[c].p) > 0 /\ ret'.n = Len(arg[c].p)
               /\ ~armed /\ Len(buf') > 0)
              => /\ pc[c] = "data"
                 /\ ret'.err = errTest
                 /\ ~armed' /\ timer = "stopped" /\ timer' = "stopped"
                 /\ fStart' + fWait' + fIn' = 0
                 /\ UNCHANGED <<initiated, executed, extended, cancelled,
                                err>>
       /\ (timer = "stopped" /\ timer' = "pending")
            => \E c \in Callers : Returns(c) /\ pc[c] = "timer"
       /\ fStart' > fStart => timer = "pending"
       /\ executed' # executed => fStart > 0
      ]_vars

\* a single WriteAndFlush has had its byte accepted and its flush refused:
\* the byte is still buffered, nothing is armed, no counter has moved
C17_Witness ==
    /\ ops = 1 /\ Quiet /\ ret.done /\ ret.flush /\ ~ret.deferred
    /\ ret.err = errTest /\ ret.n = 1 /\ Len(buf) = 1 /\ sink = <<>>
    /\ delay # 0 /\ ~armed /\ timer = "stopped"
    /\ initiated = 0 /\ executed = 0 /\ extended = 0 /\ cancelled = 0

\* the counters that a step increments, each by how much
Increments ==
    <<initiated' - initiated, executed' - executed,
      extended' - extended, cancelled' - cancelled>>

\* C18: every transition of the timer or of the armed flag counts in
\* exactly one counter, by exactly 1, and nothing else counts.  A step
\* increments at most one counter, by 1.  A write arms (armed false to true,
\* timer scheduled) exactly when it increments initiated; it stops a pending
\* timer and clears armed exactly when it increments cancelled; it resets a
\* pending timer to the delay it has read exactly when it increments
\* extended; a write that does none of these leaves armed and the timer as
\* they were.  A run of the timer callback is the timer firing, the count
\* of line 193 and the clearing of armed under the mutex: each run
\* increments executed exactly once, when it starts, and its clearing step
\* does change armed.  SetMaxDelay and the passing of time count nothing.
C18_OneCounterPerTransition ==
    [][/\ Increments \in {<<0, 0, 0, 0>>, <<1, 0, 0, 0>>, <<0, 1, 0, 0>>,
                         <<0, 0, 1, 0>>, <<0, 0, 0, 1>>}
       /\ (initiated' # initiated) <=> (~armed /\ armed')
       /\ (~armed /\ armed') =>
            (timer = "stopped" /\ timer' = "pending"
               /\ \E c \in Callers : Returns(c) /\ pc[c] = "timer")
       /\ (cancelled' # cancelled) <=>
            (armed /\ ~armed' /\ \E c \in Callers : Returns(c))
       /\ (cancelled' # cancelled) => (timer = "pending" /\ timer' = "stopped")
       /\ (extended' # extended) <=>
            /\ timer = "pending" /\ timer' = "pending" /\ armed /\ armed'
            /\ \E c \in Callers :
                 /\ Returns(c) /\ pc[c] = "timer" /\ loc[c].flushed
                 /\ Len(buf) > 0 /\ remaining' = loc[c].delay
       /\ (\E c \in Callers : pc'[c] # pc[c]) /\ Increments = <<0, 0, 0, 0>>
            => UNCHANGED <<armed, timer, remaining>>
       /\ (timer = "pending" /\ timer' = "stopped" /\ cancelled' = cancelled)
            => (fStart' = fStart + 1 /\ UNCHANGED <<armed, remaining>>)
       /\ (executed' # executed) <=> (fStart' = fStart - 1)
       /\ (executed' # executed) =>
            (fWait' = fWait + 1 /\ UNCHANGED <<armed, timer, remaining>>)
       /\ (armed /\ ~armed' /\ cancelled' = cancelled) <=> (fIn' = fIn - 1)
       /\ (pc' = pc /\ (delay' # delay \/ remaining' # remaining))
            => Increments = <<0, 0, 0, 0>>
       /\ initiated' = cancelled' + executed' + fStart'
                         + (IF timer' = "pending" THEN 1 ELSE 0)
      ]_vars

\* a timer was armed and cancelled, another was armed and has fired, and
\* its callback has run to the end
C18_Witness ==
    /\ initiated = 2 /\ extended = 0 /\ cancelled = 1 /\ executed = 1
    /\ ~armed /\ timer = "stopped" /\ fStart + fWait + fIn = 0

\* C19: as long as every call made since construction is a Flush or a
\* WriteAndFlush and the sink has returned no error, the timer is never
\* scheduled and no background flush runs: armed is false, initiated and
\* executed are 0, no flush goroutine exists, and whenever no call holds the
\* mutex the buffer is empty and the sink holds every accepted byte.
C19_FlushCallsNeverArm ==
    (flushOnly /\ berr = Nil) =>
      /\ ~armed /\ timer = "stopped"
      /\ initiated = 0 /\ executed = 0 /\ extended = 0 /\ cancelled = 0
      /\ fStart + fWait + fIn = 0 /\ err = Nil
      /\ ~locked => (buf = <<>> /\ sink = accepted)

\* with a non-zero delay, MaxOps calls, all of them Flush or WriteAndFlush,
\* have returned without error and at least two bytes have reached the sink
C19_Witness ==
    /\ flushOnly /\ berr = Nil /\ ops = MaxOps /\ Quiet /\ delay # 0
    /\ ret.done /\ ret.flush /\ ret.err = Nil /\ ret.n > 0
    /\ Len(sink) >= 2 /\ buf = <<>> /\ executed = 0 /\ ~armed

\* the step in which a Write that found no deferred error, with a non-zero
\* delay and a payload no longer than the free capacity of the buffer, runs
\* lines 129-156
FittingWrite(c) ==
    /\ pc[c] = "data" /\ pc'[c] # "data"
    /\ ~arg[c].flush /\ delay # 0
    /\ Len(arg[c].p) <= Size - Len(buf)

\* within a Write, the steps after the data step leave buffer and sink alone
TimerStepKeepsData(c) ==
    (pc[c] = "timer" /\ ~arg[c].flush /\ Returns(c))
      => (UNCHANGED <<buf, sink>> /\ ret'.err = Nil /\ ret'.n = loc[c].n)

\* C20 as stated: such a Write leaves the sink as it was and appends its
\* whole payload to the buffer, where it still is when the call returns.
C20_FittingWriteOnlyBuffers ==
    [][\A c \in Callers :
         /\ FittingWrite(c) =>
              /\ sink' = sink /\ buf' = buf \o arg[c].p
              /\ pc'[c] = "timer" /\ loc'[c].n = Len(arg[c].p)
              /\ ~loc'[c].flushed
         /\ TimerStepKeepsData(c)
      ]_vars

\* C20, amended: the same for a Write made while the sink has returned no
\* error; after a sink error such a Write leaves the sink as it was, accepts
\* nothing and returns the error.
C20_FittingWriteOnlyBuffersNoError ==
    [][\A c \in Callers :
         /\ (FittingWrite(c) /\ berr = Nil) =>
              /\ sink' = sink /\ buf' = buf \o arg[c].p
              /\ pc'[c] = "timer" /\ loc'[c].n = Len(arg[c].p)
              /\ ~loc'[c].flushed
         /\ (FittingWrite(c) /\ berr # Nil /\ Len(arg[c].p) > 0) =>
              /\ UNCHANGED <<sink, buf, accepted>>
              /\ Returns(c) /\ ret'.n = 0 /\ ret'.err = berr
         /\ TimerStepKeepsData(c)
      ]_vars

\* a single Write whose payload exactly fills the buffer has returned: the
\* sink is empty, the buffer is full and the timer is pending
C20_Witness ==
    /\ ops = 1 /\ Quiet /\ ret.done /\ ~ret.flush /\ ret.err = Nil
    /\ ret.n = Size /\ Len(buf) = Size /\ sink = <<>> /\ berr = Nil
    /\ armed /\ timer = "pending" /\ initiated = 1 /\ delay # 0

\* no timer is pending, no flush goroutine exists and the flag is clear
Idle == ~armed /\ timer = "stopped" /\ fStart + fWait + fIn = 0 /\ ~locked

\* C21: once a Write has returned leaving bytes buffered and the timer
\* pending (no call in progress, no flush goroutine outstanding), then,
\* unless a further call is made, exactly one background flush follows:
\* executed ends one higher than it was and stays there, with the writer
\* idle again, whether the flush succeeds or fails and stores its error.
C21_ExactlyOneBackgroundFlush ==
    \A k \in 1..LiveOps : \A e \in 0..(LiveOps - 1) :
      [](  ( /\ ops = k /\ executed = e /\ Quiet /\ ~locked
             /\ armed /\ timer = "pending" /\ Len(buf) > 0
             /\ fStart + fWait + fIn = 0 )
        => ( \/ <>(ops > k)
             \/ <>[](executed = e + 1 /\ Idle) ) )

\* after a single Write the timer-driven flush has run once and has failed:
\* its error is stored, one flush was executed and the writer is idle
C21_Witness ==
    /\ ops = 1 /\ Quiet /\ Idle /\ ret.done /\ ~ret.flush /\ ret.err = Nil
    /\ initiated = 1 /\ executed = 1 /\ cancelled = 0 /\ extended = 0
    /\ err = errTest /\ captured = 1 /\ delivered = 0

\* the revision of src/example/main.go stays within its types
QueueTypeOK ==
    /\ TypeOK /\ queue \in 0..MaxOps /\ skipped \in 0..MaxOps
    /\ fMark \in 0..MaxOps /\ fStart \in 0..MaxOps /\ fWait \in 0..MaxOps
    /\ initiated = 0 /\ extended = 0 /\ cancelled = 0

\* a flush goroutine of the revision of src/example/main.go that reads a
\* non-zero w.queue counts a skip and returns: it does not take the mutex
\* and leaves the flag, the buffer, the sink, the counter and the other
\* goroutines alone; skipped changes in no other step
BusyCallbackSkips ==
    /\ (fStart' < fStart /\ queue > 0) =>
         /\ skipped' = skipped + 1
         /\ UNCHANGED <<locked, armed, buf, sink, berr, err, accepted,
                        queue, fMark, fWait, fIn, executed, timer,
                        remaining>>
    /\ skipped' # skipped =>
         (queue > 0 /\ skipped' = skipped + 1 /\ fStart' = fStart - 1)

\* C22: a timer callback that starts while a prior invocation is marked in
\* w.queue counts a skip and returns without taking the mutex and without
\* touching the flag, the buffer or the sink, and therefore never more than
\* one invocation waits for the mutex.
C22_BusyCallbackSkipsAndBounds ==
    [][BusyCallbackSkips /\ fWait' <= 1]_vars

\* C23: a call of the helper Write on a sink that does not fail reports a
\* flush exactly when it wrote to the sink, which is exactly when the payload
\* is longer than the capacity available before the call; a payload that
\* exactly fills the buffer reports no flush and leaves the buffer full.
C23_FlushedIffOverflow ==
    [][(bw'.calls # bw.calls /\ bw'.err = Nil) =>
         LET a == bw.size - Len(bw.buf)
         IN /\ bw'.flushed <=> (bw'.sink # bw.sink)
            /\ bw'.flushed <=> (Len(bw'.p) > a)
            /\ Len(bw'.p) = a =>
                  (~bw'.flushed /\ Len(bw'.buf) = bw.size)]_vars

\* a payload shorter than the capacity has filled a partly filled buffer
C23_Witness ==
    /\ bw.calls > 0 /\ bw.err = Nil
    /\ Len(bw.p) > 0 /\ Len(bw.p) < bw.size
    /\ ~bw.flushed /\ Len(bw.buf) = bw.size /\ bw.sink = <<>>
\* C24: SetMaxDelay and GetStats never wait for the mutex: while a Write, a
\* Flush or a timer-driven flush holds the mutex (about to call the sink),
\* GetStats and SetMaxDelay(d), for every other delay d, can complete.
C24_AtomicsNeverWait ==
    locked => /\ ENABLED GetStats
              /\ \A d \in 0..MaxDelay : d # delay => ENABLED SetMaxDelay(d)

\* a caller holds the mutex, SetMaxDelay has changed the delay since that
\* caller loaded it, and GetStats has returned while the mutex was held
C24_Witness ==
    /\ locked /\ snap.held
    /\ \E c \in Callers : pc[c] = "timer" /\ loc[c].delay # delay
\* the flush goroutines started by the timer that have not returned
Outstanding == fStart + fWait + fIn

\* C25: every call of Write, Flush and WriteAndFlush returns, every started
\* timer callback returns, and a held mutex is released, however the callers
\* and the callbacks interleave (the sink's own calls always return).
C25_EveryInvocationTerminates ==
    /\ \A c \in Callers : (pc[c] # "idle") ~> (pc[c] = "idle")
    /\ (Outstanding > 0) ~> (Outstanding = 0)
    /\ locked ~> ~locked

\* a timer callback waits for the mutex that a caller holds
C25_Witness ==
    /\ locked /\ fWait > 0
    /\ \E c \in Callers : pc[c] \in {"data", "timer"}

\* C26: a Write or WriteAndFlush that returns no error (neither a deferred
\* one nor one of the sink) returns the length of its payload, also when the
\* payload is longer than the buffer; a Flush accepts no bytes and returns 0.
C26_CountEqualsPayloadLength ==
    [][\A c \in Callers :
         /\ (Returns(c) /\ ret'.err = Nil) => ret'.n = Len(arg[c].p)
         /\ (pc[c] # "idle" /\ pc'[c] # pc[c] /\ arg[c].p = <<>>) =>
               /\ accepted' = accepted
               /\ pc'[c] = "idle" => ret'.n = 0]_vars

\* a Write of a payload longer than the buffer has returned its length after
\* an earlier call had left a byte in the buffer
C26_Witness ==
    /\ ret.done /\ ~ret.flush /\ ret.err = Nil /\ ~ret.deferred
    /\ ret.n > Size /\ ops > 1 /\ Len(accepted) > ret.n
    /\ berr = Nil /\ sink \o buf = accepted

\* C27: as long as no call has been made, whatever the delay given at
\* construction or set afterwards, the writer holds no bytes, armed is false,
\* the timer is stopped, no flush goroutine exists, no error is stored, the
\* sink has received nothing and the counters are untouched.
C27_FreshWriter ==
    ops = 0 =>
      /\ Len(buf) = 0 /\ ~armed /\ err = Nil
      /\ timer = "stopped" /\ Outstanding = 0
      /\ sink = <<>> /\ stats = <<0, 0, 0, 0>>

\* a writer constructed with a non-zero delay that was then set to zero
C27_Witness ==
    ops = 0 /\ delay = 0 /\ ~zeroMode /\ Quiet /\ ~locked

\* the timer has fired and its flush goroutine has not yet taken the mutex
FiredNotLocked == armed /\ timer = "stopped" /\ fStart + fWait > 0

\* C28: a write that reaches its timer step after the timer has fired, while
\* the flush goroutine has not yet taken the mutex, changes neither armed
\* nor the timer nor any counter; a flush goroutine that returns leaves
\* armed false and, unless the sink has failed, an empty buffer; and the
\* fired flush goroutine does return.
C28_LateStopHasNoEffect ==
    /\ [][\A c \in Callers :
            (pc[c] = "timer" /\ pc'[c] = "idle" /\ FiredNotLocked) =>
              /\ armed' /\ timer' = "stopped" /\ remaining' = remaining
              /\ stats' = stats]_vars
    /\ [][Outstanding' < Outstanding =>
            (~armed' /\ (berr' = Nil => buf' = <<>>))]_vars
    /\ FiredNotLocked ~> (~armed /\ (berr = Nil => buf = <<>>))

\* a Write that forced a flush has returned after the timer had fired: the
\* timer was not reset, nothing was counted, armed is still true
C28_Witness ==
    /\ Quiet /\ FiredNotLocked /\ ~locked
    /\ ops = 2 /\ ret.done /\ ~ret.flush /\ ret.err = Nil
    /\ Len(buf) > 0 /\ Len(sink) > 0 /\ sink \o buf = accepted
    /\ initiated = 1 /\ extended = 0 /\ cancelled = 0

\* C29: executed is at most the number of flush goroutines that have
\* finished their flush and returned: a flush that still waits for the mutex
\* or still writes to the sink is not counted.
C29_ExecutedCountsCompleted == executed <= finished
\* timers armed and neither cancelled nor counted as executed
Uncounted == initiated - executed - cancelled

\* C30 as stated: initiated - executed - cancelled is 0 or 1, it is 1
\* exactly when the timer is scheduled and has not fired, and a step that
\* increments extended leaves it unchanged.
C30_DifferenceIsPendingTimer ==
    /\ [](Uncounted \in {0, 1} /\ (Uncounted = 1 <=> timer = "pending"))
    /\ [][extended' # extended => Uncounted' = Uncounted]_vars

\* C30, amended: initiated - executed - cancelled is 0 or 1; it is 1 exactly
\* when the timer is scheduled and has not fired, or has fired and its flush
\* goroutine has not yet counted itself (line 193); a step that increments
\* extended leaves it unchanged.
C30_DifferenceIsUncountedTimer ==
    /\ [](/\ Uncounted \in {0, 1}
          /\ Uncounted = 1 <=> (timer = "pending" \/ fStart > 0))
    /\ [][extended' # extended => Uncounted' = Uncounted]_vars

\* the timer has fired, its flush goroutine has not yet run line 193, and
\* an earlier write had extended the timer
C30_Witness ==
    /\ timer = "stopped" /\ fStart = 1 /\ Uncounted = 1
    /\ extended = 1 /\ initiated = 1 /\ armed

\* C31: a scheduled timer that has not fired implies armed = true; the
\* arming branch of write (a step that increments initiated) is taken only
\* while no timer is scheduled and armed is false.
C31_PendingTimerImpliesArmed ==
    /\ [](timer = "pending" => armed)
    /\ [][initiated' # initiated =>
            (timer = "stopped" /\ ~armed /\ timer' = "pending" /\ armed')]_vars

\* the timer is scheduled for the second time, after the first timer's flush
\* goroutine has finished
C31_Witness ==
    /\ timer = "pending" /\ armed /\ Len(buf) > 0
    /\ initiated = 2 /\ finished = 1 /\ cancelled = 0 /\ Outstanding = 0

\* C32: at most one flush goroutine started by the timer is outstanding at
\* any time, none is outstanding while the timer is scheduled, and the timer
\* is armed anew only after the previous flush goroutine has taken the mutex,
\* cleared armed and returned.
C32_OneCallbackOutstanding ==
    /\ [](Outstanding <= 1 /\ (timer = "pending" => Outstanding = 0))
    /\ [][initiated' # initiated => (Outstanding = 0 /\ ~armed)]_vars

\* the flush goroutine of the second timer waits for the mutex while a
\* caller, in its timer step, finds bytes buffered and armed still true
C32_Witness ==
    /\ fWait = 1 /\ Outstanding = 1 /\ initiated = 2 /\ finished = 1
    /\ armed /\ timer = "stopped" /\ Len(buf) > 0
    /\ \E c \in Callers : pc[c] = "timer"

\* C33: as long as the sink has returned no error, whenever nobody holds the
\* mutex the bytes received by the sink followed by the buffered bytes are
\* the payloads of the calls that returned without error, in the order of
\* those calls: no accepted byte is lost, duplicated or reordered.
C33_SinkAndBufferArePayloads ==
    (berr = Nil /\ ~locked) => sink \o buf = returned

\* three calls have returned: bytes reached the sink through a timer-driven
\* flush and through a flush made by a caller, and a byte is still buffered
C33_Witness ==
    /\ berr = Nil /\ ~locked /\ Quiet /\ ops = 3
    /\ finished > 0 /\ Len(sink) > 1 /\ Len(buf) > 0
    /\ Len(returned) = Len(sink) + Len(buf)

\* C34: only a flush goroutine started by the timer stores an error in
\* w.err; no step of a caller does, so w.err is nil whenever a call returns,
\* whether the call found it nil, delivered it, or returns an error of the
\* sink.
C34_SlotWrittenOnlyByCallback ==
    [][/\ (err' # err /\ err' # Nil) => (fIn' < fIn /\ pc' = pc)
       /\ \A c \in Callers : Returns(c) => err' = Nil]_vars

\* a call has returned an error of the sink, and w.err is nil
C34_Witness ==
    /\ ret.done /\ ret.err # Nil /\ ~ret.deferred /\ err = Nil
    /\ berr # Nil /\ captured = 0 /\ ~locked

\* C35: while an error is stored in w.err, armed is false, no timer is
\* scheduled and no flush goroutine is outstanding; the timer is armed only
\* in steps that start and end with w.err nil, that is, after a caller has
\* collected the error.
C35_PendingErrorMeansIdleTimer ==
    /\ [](err # Nil => (~armed /\ timer = "stopped" /\ Outstanding = 0))
    /\ [][(initiated' # initiated \/ (timer' = "pending" /\ timer # "pending"))
            => (err = Nil /\ err' = Nil)]_vars

\* a timer-driven flush has failed and stored its error while bytes are
\* still buffered and a caller waits for the mutex
C35_Witness ==
    /\ err # Nil /\ captured = 1 /\ delivered = 0 /\ ~locked
    /\ Len(buf) > 0 /\ ~armed /\ timer = "stopped"
    /\ \E c \in Callers : pc[c] = "lock"
====
